---- MODULE Spec2Model ----
(***************************************************************************)
(* Animation value blending of Fyrox (src/src/animation/value.rs):         *)
(* TrackValue, ValueBinding, BoundValue, BoundValueCollection and the      *)
(* write-back of a collection into a scene node.                           *)
(*                                                                         *)
(* f32 is modelled by a small binary floating-point format: a number is an *)
(* integer count of quanta of 1/2 (so 2 stands for 1.0 and 1 for 0.5), it  *)
(* keeps MantBits significant bits, and every arithmetic operation rounds  *)
(* its exact result to the nearest representable number, ties to even, as  *)
(* IEEE 754 does.  Infinities and NaN are outside the bounds of the inputs.*)
(* A unit quaternion is a rotation about the z axis, q(k) = (cos(k*pi/8),  *)
(* 0, 0, sin(k*pi/8)), written <<k>> with k in 0..15; <<16>> stands for    *)
(* the NaN quaternion that normalising the zero quaternion produces.       *)
(***************************************************************************)
EXTENDS Integers, Sequences, FiniteSets, TLC

\* values : self.values of the BoundValueCollection under evaluation
\* node   : the scene node apply writes into
\* log    : the messages given to Log::err, oldest first
\* call   : the last call made, with its arguments and the state it started from
\* ret    : what the last call returned
\* pc     : "ready" before a call, "done" after it returned, "panicked" after it aborted
\* layers, pending : the layers of a multi-layer blend and those not yet blended
\* command  : the SetMaterialShaderCommand of the editor (its state field)
\* material : the material resource the command holds: its data and whether it has a path
\* disk     : the material last saved to the resource's path
\* builds   : how many materials Material::from_shader has built
\* history  : the command's constructor arguments and the calls made on it, oldest first
VARIABLES values, node, log, call, ret, pc, layers, pending,
          command, material, disk, builds, history

editorVars == <<command, material, disk, builds, history>>

vars == <<values, node, log, call, ret, pc, layers, pending,
          command, material, disk, builds, history>>

\* ------------------------------------------------------------------ bounds
MantBits == 3
MaxSelf == 2
MaxOther == 2
MaxApplies == 2
MaxApplyLen == 3
MaxLayerLen == 1
MaxCalls == 4

\* ------------------------------------------------------------------ f32
Abs(x) == IF x < 0 THEN -x ELSE x

RECURSIVE Pow2(_)
Pow2(n) == IF n = 0 THEN 1 ELSE 2 * Pow2(n - 1)

\* Distance between neighbouring representable numbers at magnitude m.
RECURSIVE Spacing(_)
Spacing(m) == IF m < Pow2(MantBits) THEN 1 ELSE 2 * Spacing(m \div 2)

\* num/den rounded to the nearest representable number, ties to even.
RoundRat(num, den) ==
    LET a == Abs(num)
        s == den * Spacing(a \div den)
        q == a \div s
        r == a % s
        n == IF 2 * r < s THEN q
             ELSE IF 2 * r > s THEN q + 1
             ELSE IF q % 2 = 0 THEN q ELSE q + 1
        m == n * Spacing(a \div den)
    IN IF num < 0 THEN -m ELSE m

FAdd(x, y) == RoundRat(x + y, 1)
FSub(x, y) == RoundRat(x - y, 1)
FMul(x, y) == RoundRat(x * y, 2)

\* The f32 value of a small integer.
F32(n) == 2 * n

\* ------------------------------------------------------------------ Vector3
VScale(v, w) == [i \in 1..3 |-> FMul(v[i], w)]
VAdd(a, b) == [i \in 1..3 |-> FAdd(a[i], b[i])]
\* nalgebra: self * (1 - t) + rhs * t
VLerp(a, b, t) == VAdd(VScale(a, FSub(F32(1), t)), VScale(b, t))

\* ------------------------------------------------------------------ UnitQuaternion
QNaN == <<16>>
\* nalgebra: normalize(self.lerp(other, t)), for t in {0, 1/2, 1}.
QNlerp(a, b, t) ==
    LET d == (b[1] - a[1]) % 16
    IN IF a = QNaN \/ b = QNaN THEN QNaN
       ELSE IF t = F32(0) THEN a
       ELSE IF t = F32(1) THEN b
       ELSE IF d = 8 THEN QNaN
       ELSE IF d < 8 THEN <<(a[1] + d \div 2) % 16>>
       ELSE <<(a[1] - (16 - d) \div 2) % 16>>

\* ------------------------------------------------------------------ TrackValue
Vector3(v) == [kind |-> "Vector3", v |-> v]
UnitQuaternion(q) == [kind |-> "UnitQuaternion", v |-> q]

\* Variant of weighted_clone that leaves vectors unscaled, as rotations are.
TrackValue_weighted_clone_Unscaled(self, weight) ==
    IF self.kind = "Vector3" THEN Vector3(self.v) ELSE UnitQuaternion(self.v)

TrackValue_weighted_clone(self, weight) ==
    IF self.kind = "Vector3" THEN Vector3(VScale(self.v, weight))
    ELSE UnitQuaternion(self.v)

\* Variant of blend_with whose fallback arm takes the other value.
TrackValue_blend_with_Overwrite(self, other, weight) ==
    IF self.kind = "Vector3" /\ other.kind = "Vector3"
        THEN Vector3(VAdd(self.v, VScale(other.v, weight)))
    ELSE IF self.kind = "UnitQuaternion" /\ other.kind = "UnitQuaternion"
        THEN UnitQuaternion(QNlerp(self.v, other.v, weight))
    ELSE other

\* Variant of blend_with whose vector arm assigns instead of accumulating.
TrackValue_blend_with_Assign(self, other, weight) ==
    IF self.kind = "Vector3" /\ other.kind = "Vector3"
        THEN Vector3(VScale(other.v, weight))
    ELSE IF self.kind = "UnitQuaternion" /\ other.kind = "UnitQuaternion"
        THEN UnitQuaternion(QNlerp(self.v, other.v, weight))
    ELSE self

TrackValue_blend_with(self, other, weight) ==
    IF self.kind = "Vector3" /\ other.kind = "Vector3"
        THEN Vector3(VAdd(self.v, VScale(other.v, weight)))
    ELSE IF self.kind = "UnitQuaternion" /\ other.kind = "UnitQuaternion"
        THEN UnitQuaternion(QNlerp(self.v, other.v, weight))
    ELSE self

None == [some |-> FALSE]
Some(x) == [some |-> TRUE, value |-> x]

TrackValue_interpolate(self, other, t) ==
    IF self.kind = "Vector3" /\ other.kind = "Vector3"
        THEN Some(Vector3(VLerp(self.v, other.v, t)))
    ELSE IF self.kind = "UnitQuaternion" /\ other.kind = "UnitQuaternion"
        THEN Some(UnitQuaternion(QNlerp(self.v, other.v, t)))
    ELSE None

\* The type-erased value handed to the property setter: its type and its payload.
TrackValue_boxed_value(self) ==
    IF self.kind = "Vector3" THEN [type |-> "Vector3", v |-> self.v]
    ELSE [type |-> "UnitQuaternion", v |-> self.v]

\* ------------------------------------------------------------------ ValueBinding
Position == [tag |-> "Position", name |-> ""]
Scale == [tag |-> "Scale", name |-> ""]
Rotation == [tag |-> "Rotation", name |-> ""]
Property(name) == [tag |-> "Property", name |-> name]

\* ------------------------------------------------------------------ BoundValue
BoundValue(binding, value) == [binding |-> binding, value |-> value]

BoundValue_weighted_clone(self, weight) ==
    BoundValue(self.binding, TrackValue_weighted_clone(self.value, weight))

\* Variant of BoundValue::blend_with whose assertion compares the binding's variant only.
BoundValue_blend_with_TagOnly(self, other, weight) ==
    IF self.binding.tag # other.binding.tag THEN [panic |-> TRUE, self |-> self]
    ELSE [panic |-> FALSE,
          self |-> BoundValue(self.binding,
                              TrackValue_blend_with(self.value, other.value, weight))]

\* assert_eq!(self.binding, other.binding), then the value blend.
BoundValue_blend_with(self, other, weight) ==
    IF self.binding # other.binding THEN [panic |-> TRUE, self |-> self]
    ELSE [panic |-> FALSE,
          self |-> BoundValue(self.binding,
                              TrackValue_blend_with(self.value, other.value, weight))]

BoundValue_interpolate(self, other, t) ==
    IF self.binding # other.binding THEN [panic |-> TRUE, ret |-> None]
    ELSE LET r == TrackValue_interpolate(self.value, other.value, t)
         IN [panic |-> FALSE,
             ret |-> IF r.some THEN Some(BoundValue(self.binding, r.value)) ELSE None]

BoundValue_boxed_value(self) == TrackValue_boxed_value(self.value)

\* ------------------------------------------------------------------ BoundValueCollection
\* Variant of the lookup that returns the last match (rfind / rposition).
RECURSIVE FindLastFrom(_, _, _)
FindLastFrom(other, binding, j) ==
    IF j = 0 THEN 0
    ELSE IF other[j].binding = binding THEN j
    ELSE FindLastFrom(other, binding, j - 1)

FindLast(other, binding) == FindLastFrom(other, binding, Len(other))

\* other.values.iter().find(|v| v.binding == binding): the first index, 0 when absent.
RECURSIVE FindFrom(_, _, _)
FindFrom(other, binding, j) ==
    IF j > Len(other) THEN 0
    ELSE IF other[j].binding = binding THEN j
    ELSE FindFrom(other, binding, j + 1)

Find(other, binding) == FindFrom(other, binding, 1)

BoundValueCollection_weighted_clone(self, weight) ==
    [i \in 1..Len(self) |-> BoundValue_weighted_clone(self[i], weight)]

\* Variant of blend_with's loop that fades an entry absent from other by 1 - weight.
RECURSIVE BlendFrom_FadeAbsent(_, _, _, _)
BlendFrom_FadeAbsent(self, other, weight, i) ==
    IF i > Len(self) THEN [panic |-> FALSE, values |-> self]
    ELSE LET j == FindFrom(other, self[i].binding, 1)
         IN IF j = 0
                THEN BlendFrom_FadeAbsent(
                         [self EXCEPT ![i] = BoundValue_weighted_clone(
                                                 self[i], FSub(F32(1), weight))],
                         other, weight, i + 1)
            ELSE LET r == BoundValue_blend_with(self[i], other[j], weight)
                 IN IF r.panic THEN [panic |-> TRUE, values |-> self]
                    ELSE BlendFrom_FadeAbsent([self EXCEPT ![i] = r.self],
                                              other, weight, i + 1)

\* The loop of blend_with from entry i on; a panic leaves what was written so far.
RECURSIVE BlendFrom(_, _, _, _)
BlendFrom(self, other, weight, i) ==
    IF i > Len(self) THEN [panic |-> FALSE, values |-> self]
    ELSE LET j == Find(other, self[i].binding)
         IN IF j = 0 THEN BlendFrom(self, other, weight, i + 1)
            ELSE LET r == BoundValue_blend_with(self[i], other[j], weight)
                 IN IF r.panic THEN [panic |-> TRUE, values |-> self]
                    ELSE BlendFrom([self EXCEPT ![i] = r.self], other, weight, i + 1)

BoundValueCollection_blend_with(self, other, weight) == BlendFrom(self, other, weight, 1)

\* Variant of interpolate's loop that keeps an entry of self absent from other.
RECURSIVE InterpolateFrom_KeepAbsent(_, _, _, _, _)
InterpolateFrom_KeepAbsent(self, other, t, i, new_values) ==
    IF i > Len(self) THEN [panic |-> FALSE, values |-> new_values]
    ELSE LET j == FindFrom(other, self[i].binding, 1)
         IN IF j = 0 THEN InterpolateFrom_KeepAbsent(self, other, t, i + 1,
                                                     Append(new_values, self[i]))
            ELSE LET r == BoundValue_interpolate(self[i], other[j], t)
                 IN IF r.panic \/ ~r.ret.some THEN [panic |-> TRUE, values |-> new_values]
                    ELSE InterpolateFrom_KeepAbsent(self, other, t, i + 1,
                                                    Append(new_values, r.ret.value))

\* The loop of interpolate from entry i on; unwrap() of None panics.
RECURSIVE InterpolateFrom(_, _, _, _, _)
InterpolateFrom(self, other, t, i, new_values) ==
    IF i > Len(self) THEN [panic |-> FALSE, values |-> new_values]
    ELSE LET j == Find(other, self[i].binding)
         IN IF j = 0 THEN InterpolateFrom(self, other, t, i + 1, new_values)
            ELSE LET r == BoundValue_interpolate(self[i], other[j], t)
                 IN IF r.panic \/ ~r.ret.some THEN [panic |-> TRUE, values |-> new_values]
                    ELSE InterpolateFrom(self, other, t, i + 1,
                                         Append(new_values, r.ret.value))

BoundValueCollection_interpolate(self, other, t) == InterpolateFrom(self, other, t, 1, <<>>)

\* ------------------------------------------------------------------ scene node
\* LocalTransform::set_position / set_scale / set_rotation: the channel takes the value.
set_position(n, v) == [n EXCEPT !.position = v]
set_scale(n, v) == [n EXCEPT !.scale = v]
set_rotation(n, v) == [n EXCEPT !.rotation = v]

\* Reflect::resolve_path_mut: Ok for the paths the node has a field for.
resolve_path_mut(n, property_name) == property_name \in DOMAIN n.props

\* Reflect::set on the resolved field: Err when the boxed value is of another type.
property_set(n, property_name, boxed) ==
    IF n.props[property_name].type # boxed.type THEN [err |-> TRUE, node |-> n]
    ELSE [err |-> FALSE,
          node |-> [n EXCEPT !.props[property_name] = boxed]]

\* Variant of apply's loop body that moves the position by the value instead of
\* setting it.
ApplyOne_OffsetPosition(bound_value, n, l) ==
    LET b == bound_value.binding
        value == bound_value.value
    IN IF b.tag = "Position" /\ value.kind = "Vector3"
           THEN [node |-> set_position(n, VAdd(n.position, value.v)), log |-> l]
       ELSE IF b.tag = "Scale" /\ value.kind = "Vector3"
           THEN [node |-> set_scale(n, value.v), log |-> l]
       ELSE IF b.tag = "Rotation" /\ value.kind = "UnitQuaternion"
           THEN [node |-> set_rotation(n, value.v), log |-> l]
       ELSE IF b.tag = "Property" /\ resolve_path_mut(n, b.name)
               /\ ~property_set(n, b.name, BoundValue_boxed_value(bound_value)).err
           THEN [node |-> property_set(n, b.name,
                                       BoundValue_boxed_value(bound_value)).node,
                 log |-> l]
       ELSE [node |-> n, log |-> Append(l, [msg |-> "error", name |-> b.name])]

\* The body of apply's loop for one bound value: the node and the log after it.
ApplyOne(bound_value, n, l) ==
    LET b == bound_value.binding
        value == bound_value.value
    IN CASE b.tag = "Position" ->
              IF value.kind = "Vector3"
                  THEN [node |-> set_position(n, value.v), log |-> l]
                  ELSE [node |-> n,
                        log |-> Append(l, [msg |-> "Unable to apply position", name |-> ""])]
         [] b.tag = "Scale" ->
              IF value.kind = "Vector3"
                  THEN [node |-> set_scale(n, value.v), log |-> l]
                  ELSE [node |-> n,
                        log |-> Append(l, [msg |-> "Unable to apply scaling", name |-> ""])]
         [] b.tag = "Rotation" ->
              IF value.kind = "UnitQuaternion"
                  THEN [node |-> set_rotation(n, value.v), log |-> l]
                  ELSE [node |-> n,
                        log |-> Append(l, [msg |-> "Unable to apply rotation", name |-> ""])]
         [] b.tag = "Property" ->
              IF resolve_path_mut(n, b.name)
                  THEN LET r == property_set(n, b.name, BoundValue_boxed_value(bound_value))
                       IN IF r.err
                              THEN [node |-> n,
                                    log |-> Append(l, [msg |-> "Failed to set property",
                                                       name |-> b.name])]
                              ELSE [node |-> r.node, log |-> l]
                  ELSE [node |-> n,
                        log |-> Append(l, [msg |-> "Unable to find property",
                                           name |-> b.name])]

\* Variant of apply's loop that returns at the first entry it reports.
RECURSIVE ApplyFrom_StopOnError(_, _, _, _)
ApplyFrom_StopOnError(self, n, l, i) ==
    IF i > Len(self) THEN [node |-> n, log |-> l]
    ELSE LET r == ApplyOne(self[i], n, l)
         IN IF r.log # l THEN r
            ELSE ApplyFrom_StopOnError(self, r.node, r.log, i + 1)

RECURSIVE ApplyFrom(_, _, _, _)
ApplyFrom(self, n, l, i) ==
    IF i > Len(self) THEN [node |-> n, log |-> l]
    ELSE LET r == ApplyOne(self[i], n, l)
         IN ApplyFrom(self, r.node, r.log, i + 1)

BoundValueCollection_apply(self, n, l) == ApplyFrom(self, n, l, 1)

\* ------------------------------------------------------------------ inputs
Weights == {F32(0), F32(1) \div 2, F32(1)}          \* 0.0, 0.5, 1.0

RECURSIVE SeqsUpTo(_, _)
SeqsUpTo(S, n) ==
    IF n = 0 THEN {<<>>}
    ELSE LET shorter == SeqsUpTo(S, n - 1)
         IN shorter \cup {Append(s, e) : s \in {x \in shorter : Len(x) = n - 1}, e \in S}

BlendEntries ==
    { BoundValue(Position, Vector3(<<2, 0, 0>>)),
      BoundValue(Position, Vector3(<<0, 2, 0>>)),
      BoundValue(Position, UnitQuaternion(<<4>>)),
      BoundValue(Rotation, UnitQuaternion(<<0>>)),
      BoundValue(Rotation, UnitQuaternion(<<4>>)),
      BoundValue(Property("offset"), Vector3(<<2, 0, 0>>)) }

ArgEntries ==
    BlendEntries \cup { BoundValue(Property("Health"), Vector3(<<2, 0, 0>>)),
                        BoundValue(Scale, Vector3(<<0, 2, 0>>)) }

\* Node::default(): identity transform; three reflected fields of different types.
DefaultNode ==
    [position |-> <<0, 0, 0>>, scale |-> <<2, 2, 2>>, rotation |-> <<0>>,
     props |-> [n \in {"offset", "orientation", "Health"} |->
                  IF n = "offset" THEN [type |-> "Vector3", v |-> <<0, 0, 0>>]
                  ELSE IF n = "orientation" THEN [type |-> "UnitQuaternion", v |-> <<0>>]
                  ELSE [type |-> "f32", v |-> <<2>>]]]

NoCall == [op |-> "none"]
NoRet == [kind |-> "unit"]

\* No editor command exists while the animation core is evaluated.
NoEditor ==
    /\ command = [state |-> [tag |-> "none"]]
    /\ material = [path |-> FALSE, data |-> [shader |-> "none", build |-> 0]]
    /\ disk = [shader |-> "none", build |-> 0]
    /\ builds = 0
    /\ history = [calls |-> <<>>]

\* ------------------------------------------------------------------ the blend core
Init ==
    /\ values \in SeqsUpTo(BlendEntries, MaxSelf)
    /\ node = DefaultNode
    /\ log = <<>>
    /\ call = NoCall
    /\ ret = NoRet
    /\ pc = "ready"
    /\ layers = <<>>
    /\ pending = {}
    /\ NoEditor

weighted_clone ==
    /\ pc = "ready"
    /\ \E weight \in Weights :
        /\ call' = [op |-> "weighted_clone", pre |-> values, weight |-> weight]
        /\ ret' = [kind |-> "collection",
                   values |-> BoundValueCollection_weighted_clone(values, weight)]
    /\ pc' = "done"
    /\ UNCHANGED <<values, node, log, layers, pending>>
    /\ UNCHANGED editorVars

blend_with ==
    /\ pc = "ready"
    /\ \E other \in SeqsUpTo(BlendEntries, MaxOther), weight \in Weights :
        LET r == BoundValueCollection_blend_with(values, other, weight)
        IN /\ call' = [op |-> "blend_with", pre |-> values, other |-> other,
                       weight |-> weight]
           /\ values' = r.values
           /\ pc' = IF r.panic THEN "panicked" ELSE "done"
    /\ ret' = NoRet
    /\ UNCHANGED <<node, log, layers, pending>>
    /\ UNCHANGED editorVars

interpolate ==
    /\ pc = "ready"
    /\ \E other \in SeqsUpTo(BlendEntries, MaxOther), t \in Weights :
        LET r == BoundValueCollection_interpolate(values, other, t)
        IN /\ call' = [op |-> "interpolate", pre |-> values, other |-> other,
                       weight |-> t]
           /\ pc' = IF r.panic THEN "panicked" ELSE "done"
           /\ ret' = IF r.panic THEN NoRet
                     ELSE [kind |-> "collection", values |-> r.values]
    /\ UNCHANGED <<values, node, log, layers, pending>>
    /\ UNCHANGED editorVars

\* BoundValue::blend_with called on entry i of the collection.
bound_value_blend_with ==
    /\ pc = "ready"
    /\ \E i \in DOMAIN values, other \in ArgEntries, weight \in Weights :
        LET r == BoundValue_blend_with(values[i], other, weight)
        IN /\ call' = [op |-> "BoundValue::blend_with", pre |-> values, index |-> i,
                       other |-> other, weight |-> weight]
           /\ values' = [values EXCEPT ![i] = r.self]
           /\ pc' = IF r.panic THEN "panicked" ELSE "done"
    /\ ret' = NoRet
    /\ UNCHANGED <<node, log, layers, pending>>
    /\ UNCHANGED editorVars

\* BoundValue::interpolate called on entry i of the collection.
bound_value_interpolate ==
    /\ pc = "ready"
    /\ \E i \in DOMAIN values, other \in ArgEntries, t \in Weights :
        LET r == BoundValue_interpolate(values[i], other, t)
        IN /\ call' = [op |-> "BoundValue::interpolate", pre |-> values, index |-> i,
                       other |-> other, weight |-> t]
           /\ pc' = IF r.panic THEN "panicked" ELSE "done"
           /\ ret' = IF r.panic THEN NoRet ELSE [kind |-> "option", option |-> r.ret]
    /\ UNCHANGED <<values, node, log, layers, pending>>
    /\ UNCHANGED editorVars

Next ==
    \/ weighted_clone
    \/ blend_with
    \/ interpolate
    \/ bound_value_blend_with
    \/ bound_value_interpolate

Spec == Init /\ [][Next]_vars

\* ------------------------------------------------------------------ write-back
ApplyBindings ==
    {Position, Scale, Rotation, Property("offset"), Property("orientation"),
     Property("Health"), Property("missing")}

ApplyEntries ==
    {BoundValue(b, v) : b \in ApplyBindings,
                        v \in {Vector3(<<2, 0, 0>>), UnitQuaternion(<<4>>)}}
    \cup {BoundValue(Position, Vector3(<<0, 2, 0>>))}

\* A node some earlier frame has posed.
PosedNode ==
    [position |-> <<2, 0, 0>>, scale |-> <<2, 4, 2>>, rotation |-> <<2>>,
     props |-> [n \in {"offset", "orientation", "Health"} |->
                  IF n = "offset" THEN [type |-> "Vector3", v |-> <<0, 2, 0>>]
                  ELSE IF n = "orientation" THEN [type |-> "UnitQuaternion", v |-> <<2>>]
                  ELSE [type |-> "f32", v |-> <<1>>]]]

InitApply ==
    /\ values \in SeqsUpTo(ApplyEntries, MaxApplyLen)
    /\ node \in {DefaultNode, PosedNode}
    /\ log = <<>>
    /\ call = [op |-> "none", n |-> 0]
    /\ ret = NoRet
    /\ pc = "ready"
    /\ layers = <<>>
    /\ pending = {}
    /\ NoEditor

\* apply(&self, node_ref); call.n counts the applications of this collection.
apply ==
    /\ call.n < MaxApplies
    /\ LET r == BoundValueCollection_apply(values, node, log)
       IN /\ node' = r.node
          /\ log' = r.log
    /\ call' = [op |-> "apply", n |-> call.n + 1, preNode |-> node, preLog |-> log]
    /\ pc' = "done"
    /\ ret' = NoRet
    /\ UNCHANGED <<values, layers, pending>>
    /\ UNCHANGED editorVars

NextApply == apply

SpecApply == InitApply /\ [][NextApply]_vars

\* ------------------------------------------------------------------ layer accumulation
BaseEntries ==
    { BoundValue(Position, Vector3(<<8, 0, 2>>)),
      BoundValue(Position, UnitQuaternion(<<0>>)),
      BoundValue(Scale, Vector3(<<2, 2, 2>>)) }

LayerEntries ==
    { BoundValue(Position, Vector3(<<2, 2, 0>>)),
      BoundValue(Position, Vector3(<<-8, 0, 0>>)),
      BoundValue(Position, UnitQuaternion(<<4>>)) }

Layers ==
    {[values |-> v, weight |-> w] : v \in SeqsUpTo(LayerEntries, MaxLayerLen),
                                    w \in Weights}

\* call.pre keeps the base the accumulation started from.
InitLayers ==
    /\ values \in SeqsUpTo(BaseEntries, MaxSelf)
    /\ layers \in [1..2 -> Layers]
    /\ pending = {1, 2}
    /\ call = [op |-> "none", pre |-> values, order |-> <<>>]
    /\ node = DefaultNode
    /\ log = <<>>
    /\ ret = NoRet
    /\ pc = "ready"
    /\ NoEditor

\* The caller blends one more layer into the pose: self.blend_with(layer, weight).
blend_layer ==
    /\ pc # "panicked"
    /\ \E k \in pending :
        LET r == BoundValueCollection_blend_with(values, layers[k].values, layers[k].weight)
        IN /\ values' = r.values
           /\ pc' = IF r.panic THEN "panicked" ELSE "done"
           /\ pending' = pending \ {k}
           /\ call' = [op |-> "blend_with", pre |-> call.pre,
                       order |-> Append(call.order, k)]
    /\ UNCHANGED <<node, log, ret, layers>>
    /\ UNCHANGED editorVars

NextLayers == blend_layer

SpecLayers == InitLayers /\ [][NextLayers]_vars

\* ------------------------------------------------------------------ editor command
\* SetMaterialShaderCommandState
Undefined == [tag |-> "Undefined"]
NonExecuted(new_shader) == [tag |-> "NonExecuted", new_shader |-> new_shader]
Executed(old_material) == [tag |-> "Executed", old_material |-> old_material]
Reverted(new_material) == [tag |-> "Reverted", new_material |-> new_material]

\* Material::from_shader: a new material for the shader; n materials were built before.
from_shader(new_shader, n) == [shader |-> new_shader, build |-> n + 1]

\* Variant of swap whose Reverted arm builds the material from its shader again.
swap_Rebuild(state, data, n) ==
    CASE state.tag = "Undefined" ->
            [panic |-> TRUE, state |-> Undefined, data |-> data, builds |-> n]
      [] state.tag = "NonExecuted" ->
            [panic |-> FALSE, state |-> Executed(data),
             data |-> from_shader(state.new_shader, n), builds |-> n + 1]
      [] state.tag = "Executed" ->
            [panic |-> FALSE, state |-> Reverted(data),
             data |-> state.old_material, builds |-> n]
      [] state.tag = "Reverted" ->
            [panic |-> FALSE, state |-> Executed(data),
             data |-> from_shader(state.new_material.shader, n), builds |-> n + 1]

\* The match of swap on mem::replace(&mut self.state, Undefined): the state, the
\* material's data and the number of materials built after it; unreachable!() panics
\* and leaves the state Undefined.
swap(state, data, n) ==
    CASE state.tag = "Undefined" ->
            [panic |-> TRUE, state |-> Undefined, data |-> data, builds |-> n]
      [] state.tag = "NonExecuted" ->
            [panic |-> FALSE, state |-> Executed(data),
             data |-> from_shader(state.new_shader, n), builds |-> n + 1]
      [] state.tag = "Executed" ->
            [panic |-> FALSE, state |-> Reverted(data),
             data |-> state.old_material, builds |-> n]
      [] state.tag = "Reverted" ->
            [panic |-> FALSE, state |-> Executed(data),
             data |-> state.new_material, builds |-> n]

\* try_save: a material with a path is saved to it; Log::verify reports a failed save.
try_save(r, ok) ==
    /\ disk' = IF material.path /\ ok THEN r.data ELSE disk
    /\ log' = IF material.path /\ ~ok THEN Append(log, [msg |-> "save failed", name |-> ""])
              ELSE log

\* self.swap(ctx), the body shared by execute and revert.
command_swap ==
    /\ pc # "panicked"
    /\ Len(history.calls) < MaxCalls
    /\ LET r == swap(command.state, material.data, builds)
       IN /\ command' = [command EXCEPT !.state = r.state]
          /\ material' = [material EXCEPT !.data = r.data]
          /\ builds' = r.builds
          /\ IF r.panic
                THEN pc' = "panicked" /\ UNCHANGED <<disk, log>>
                ELSE pc' = "done" /\ \E ok \in BOOLEAN : try_save(r, ok)
    /\ UNCHANGED <<values, node, call, ret, layers, pending>>

execute ==
    /\ command_swap
    /\ history' = [history EXCEPT !.calls = Append(@, "execute")]

revert ==
    /\ command_swap
    /\ history' = [history EXCEPT !.calls = Append(@, "revert")]

Shaders == {"pbr", "unlit"}

OriginalMaterial == [shader |-> "standard", build |-> 0]

\* SetMaterialShaderCommand::new(material, shader)
InitCommand ==
    /\ \E shader \in Shaders :
        /\ command = [state |-> NonExecuted(shader)]
        /\ history = [calls |-> <<>>, material |-> OriginalMaterial, shader |-> shader]
    /\ material \in [path : BOOLEAN, data : {OriginalMaterial}]
    /\ disk = OriginalMaterial
    /\ builds = 0
    /\ log = <<>>
    /\ pc = "ready"
    /\ values = <<>>
    /\ node = DefaultNode
    /\ call = NoCall
    /\ ret = NoRet
    /\ layers = <<>>
    /\ pending = {}

NextCommand ==
    \/ execute
    \/ revert

SpecCommand == InitCommand /\ [][NextCommand]_vars

\* ================================================================== claims
Bindings(c) == {c[i].binding : i \in DOMAIN c}
IsVector(bv) == bv.value.kind = "Vector3"
Half == F32(1) \div 2                      \* the f32 0.5
Quanta(x, y, z) == <<x, y, z>>

\* ------------------------------------------------------------------ C1
\* C1: blend_with(other, weight) keeps the number and the order of self's entries,
\* and an entry whose binding has no entry in other keeps its binding and its value.
C1_BlendKeepsUnmatched ==
    call.op = "blend_with" =>
        /\ pc = "done"
        /\ Len(values) = Len(call.pre)
        /\ \A i \in DOMAIN call.pre :
            /\ values[i].binding = call.pre[i].binding
            /\ (call.pre[i].binding \notin Bindings(call.other)
                    => values[i] = call.pre[i])

\* A blend with a non-zero weight in which one entry had no counterpart and another
\* one had one and changed.
C1_Witness ==
    /\ call.op = "blend_with"
    /\ call.weight # F32(0)
    /\ \E i, j \in DOMAIN call.pre :
        /\ call.pre[i].binding \notin Bindings(call.other)
        /\ call.pre[j].binding \in Bindings(call.other)
        /\ values[j] # call.pre[j]

\* ------------------------------------------------------------------ C2
SameKindOnShared(a, b) ==
    \A i \in DOMAIN a, j \in DOMAIN b :
        a[i].binding = b[j].binding => a[i].value.kind = b[j].value.kind

\* C2: with same-kind values on shared bindings, interpolate(a, b, t) returns a
\* collection whose bindings are exactly those present in both a and b.
C2_InterpolateIntersection ==
    (call.op = "interpolate" /\ SameKindOnShared(call.pre, call.other)) =>
        /\ pc = "done"
        /\ ret.kind = "collection"
        /\ Bindings(ret.values) = Bindings(call.pre) \cap Bindings(call.other)

\* An interpolation where one binding is only in a, one only in b and one in both.
C2_Witness ==
    /\ call.op = "interpolate"
    /\ pc = "done"
    /\ SameKindOnShared(call.pre, call.other)
    /\ Bindings(call.pre) \ Bindings(call.other) # {}
    /\ Bindings(call.other) \ Bindings(call.pre) # {}
    /\ Bindings(ret.values) # {}

\* ------------------------------------------------------------------ C3
\* Entry i of a and its first counterpart in b hold different variants.
VariantMismatchAt(a, b, i) ==
    LET j == FindFrom(b, a[i].binding, 1)
    IN j # 0 /\ a[i].value.kind # b[j].value.kind

\* C3: a variant mismatch between same-binding values never aborts interpolate:
\* BoundValue::interpolate returns None, and BoundValueCollection::interpolate returns
\* to its caller too.
C3_MismatchNeverAborts ==
    /\ (call.op = "BoundValue::interpolate"
        /\ call.pre[call.index].binding = call.other.binding
        /\ call.pre[call.index].value.kind # call.other.value.kind)
            => (pc = "done" /\ ret.kind = "option" /\ ~ret.option.some)
    /\ (call.op = "interpolate"
        /\ \E i \in DOMAIN call.pre : VariantMismatchAt(call.pre, call.other, i))
            => pc = "done"

\* ------------------------------------------------------------------ C4
\* C4: BoundValue::blend_with and BoundValue::interpolate abort exactly when the two
\* bindings differ, and an aborted call has changed no value and returned nothing.
C4_BindingMismatchIsFatal ==
    call.op \in {"BoundValue::blend_with", "BoundValue::interpolate"} =>
        IF call.pre[call.index].binding # call.other.binding
            THEN pc = "panicked" /\ values = call.pre /\ ret = NoRet
            ELSE pc = "done"

\* BoundValue::blend_with, with a non-zero weight, of two vectors bound to properties
\* of different names.
C4_Witness ==
    /\ call.op = "BoundValue::blend_with"
    /\ call.weight # F32(0)
    /\ call.pre[call.index].binding.tag = "Property"
    /\ call.other.binding.tag = "Property"
    /\ call.pre[call.index].binding.name # call.other.binding.name
    /\ IsVector(call.pre[call.index]) /\ IsVector(call.other)
    /\ pc = "panicked"

\* ------------------------------------------------------------------ C7
\* C7: blending values of different variants changes nothing and raises nothing, in
\* BoundValue::blend_with and, for an entry whose counterpart in other is of the
\* other variant, in BoundValueCollection::blend_with.
C7_MismatchedBlendIsNoOp ==
    /\ (call.op = "BoundValue::blend_with"
        /\ call.pre[call.index].binding = call.other.binding
        /\ call.pre[call.index].value.kind # call.other.value.kind)
            => (pc = "done" /\ values = call.pre)
    /\ call.op = "blend_with" =>
        /\ pc = "done"
        /\ \A i \in DOMAIN call.pre :
            VariantMismatchAt(call.pre, call.other, i) => values[i] = call.pre[i]

\* A collection blend, with a non-zero weight, where a vector meets a rotation under
\* the same binding while another entry is blended.
C7_Witness ==
    /\ call.op = "blend_with"
    /\ call.weight # F32(0)
    /\ \E i, j \in DOMAIN call.pre :
        /\ VariantMismatchAt(call.pre, call.other, i)
        /\ IsVector(call.pre[i])
        /\ values[j] # call.pre[j]

\* ------------------------------------------------------------------ C8
\* The first entry of other from j on that has the binding and holds a vector, or 0.
RECURSIVE FirstVectorFrom(_, _, _)
FirstVectorFrom(other, binding, j) ==
    IF j > Len(other) THEN 0
    ELSE IF other[j].binding = binding /\ IsVector(other[j]) THEN j
    ELSE FirstVectorFrom(other, binding, j + 1)

\* C8 as stated: after blend_with(other, weight) every vector entry of self whose
\* binding occurs in other with a vector value is its old value plus weight times the
\* value of the first entry of other with that binding (read either as the first entry
\* with the binding, which then has to be a vector, or as the first vector entry with
\* the binding).
C8_Original ==
    call.op = "blend_with" =>
        \A i \in DOMAIN call.pre :
            LET f == FindFrom(call.other, call.pre[i].binding, 1)
                g == FirstVectorFrom(call.other, call.pre[i].binding, 1)
            IN (IsVector(call.pre[i]) /\ g # 0)
               => \/ /\ IsVector(call.other[f])
                     /\ values[i].value =
                          Vector3(VAdd(call.pre[i].value.v,
                                       VScale(call.other[f].value.v, call.weight)))
                  \/ values[i].value =
                       Vector3(VAdd(call.pre[i].value.v,
                                    VScale(call.other[g].value.v, call.weight)))

\* C8: after blend_with(other, weight) every vector entry of self whose binding's first
\* entry in other holds a vector is its old value plus weight times that first value,
\* added once; later entries of other with the binding are ignored.
C8_FirstMatchAccumulates ==
    call.op = "blend_with" =>
        \A i \in DOMAIN call.pre :
            LET f == FindFrom(call.other, call.pre[i].binding, 1)
            IN (IsVector(call.pre[i]) /\ f # 0 /\ IsVector(call.other[f]))
               => values[i].value =
                    Vector3(VAdd(call.pre[i].value.v,
                                 VScale(call.other[f].value.v, call.weight)))

\* Position (1,0,0) blended at weight 0.5 with a layer holding Position (0,1,0) and
\* then Position (1,0,0) gives (1, 0.5, 0).
C8_Witness ==
    /\ call.op = "blend_with"
    /\ call.weight = Half
    /\ call.other = << BoundValue(Position, Vector3(Quanta(0, 2, 0))),
                       BoundValue(Position, Vector3(Quanta(2, 0, 0))) >>
    /\ \E i \in DOMAIN call.pre :
        /\ call.pre[i] = BoundValue(Position, Vector3(Quanta(2, 0, 0)))
        /\ values[i] = BoundValue(Position, Vector3(Quanta(2, 1, 0)))

\* ------------------------------------------------------------------ C10
\* C10: weighted_clone(weight) returns the bindings of self in order, each vector
\* scaled component-wise by weight (unchanged at weight 1, zero at weight 0) and each
\* rotation copied, and leaves self as it was.
C10_WeightedClone ==
    call.op = "weighted_clone" =>
        /\ pc = "done"
        /\ values = call.pre
        /\ ret.kind = "collection"
        /\ Len(ret.values) = Len(call.pre)
        /\ \A i \in DOMAIN call.pre :
            /\ ret.values[i].binding = call.pre[i].binding
            /\ ret.values[i].value.kind = call.pre[i].value.kind
            /\ IsVector(call.pre[i]) =>
                /\ \A c \in 1..3 :
                     ret.values[i].value.v[c] = FMul(call.pre[i].value.v[c], call.weight)
                /\ call.weight = F32(1) => ret.values[i].value.v = call.pre[i].value.v
                /\ call.weight = F32(0) => ret.values[i].value.v = <<0, 0, 0>>
            /\ ~IsVector(call.pre[i]) => ret.values[i].value = call.pre[i].value

\* A clone at weight 0.5 of a collection holding a non-zero vector and a rotation.
C10_Witness ==
    /\ call.op = "weighted_clone"
    /\ call.weight = Half
    /\ \E i, j \in DOMAIN call.pre :
        /\ IsVector(call.pre[i])
        /\ ret.values[i] # call.pre[i]
        /\ ~IsVector(call.pre[j])

\* ------------------------------------------------------------------ C5
\* apply can write the bound value into node n.
Writable(bv, n) ==
    CASE bv.binding.tag \in {"Position", "Scale"} -> bv.value.kind = "Vector3"
      [] bv.binding.tag = "Rotation" -> bv.value.kind = "UnitQuaternion"
      [] bv.binding.tag = "Property" ->
            /\ bv.binding.name \in DOMAIN n.props
            /\ n.props[bv.binding.name].type = bv.value.kind

Skipped(c, n) == {i \in DOMAIN c : ~Writable(c[i], n)}

MaxOf(S) == CHOOSE x \in S : \A y \in S : y <= x

\* What the channel of the binding holds after the writable entries of c were written
\* in order: the value of the last of them, or old when there is none.
LastWritten(c, n, binding, old) ==
    LET S == {i \in DOMAIN c : c[i].binding = binding /\ Writable(c[i], n)}
    IN IF S = {} THEN old ELSE c[MaxOf(S)].value.v

ReportOf(bv) ==
    CASE bv.binding.tag = "Position" -> [msg |-> "Unable to apply position", name |-> ""]
      [] bv.binding.tag = "Scale" -> [msg |-> "Unable to apply scaling", name |-> ""]
      [] bv.binding.tag = "Rotation" -> [msg |-> "Unable to apply rotation", name |-> ""]
      [] bv.binding.tag = "Property" ->
            [msg |-> IF bv.binding.name \in DOMAIN call.preNode.props
                         THEN "Failed to set property" ELSE "Unable to find property",
             name |-> bv.binding.name]

\* C5: apply never aborts; an entry it cannot write is skipped, leaves its channel or
\* property as it was and adds one message to the log, and every writable entry,
\* before or after a skipped one, is written (the last one per channel stays).
C5_ApplySkipsAndReports ==
    call.op = "apply" =>
        LET old == call.preNode
            skipped == Skipped(values, old)
        IN /\ pc = "done"
           /\ node.position = LastWritten(values, old, Position, old.position)
           /\ node.scale = LastWritten(values, old, Scale, old.scale)
           /\ node.rotation = LastWritten(values, old, Rotation, old.rotation)
           /\ DOMAIN node.props = DOMAIN old.props
           /\ \A p \in DOMAIN old.props :
                /\ node.props[p].type = old.props[p].type
                /\ node.props[p].v = LastWritten(values, old, Property(p), old.props[p].v)
           /\ Len(log) = Len(call.preLog) + Cardinality(skipped)
           /\ SubSeq(log, 1, Len(call.preLog)) = call.preLog
           /\ \A i \in skipped :
                log[Len(call.preLog) + Cardinality({j \in skipped : j <= i})]
                    = ReportOf(values[i])

\* A first application in which a skipped entry stands between two entries that were
\* written and changed the node.
C5_Witness ==
    /\ call.op = "apply"
    /\ call.n = 1
    /\ Len(values) = 3
    /\ Skipped(values, call.preNode) = {2}
    /\ values[1].binding # values[3].binding
    /\ values[1].binding.tag = "Property"
    /\ node.props[values[1].binding.name] # call.preNode.props[values[1].binding.name]
    /\ values[3].binding = Position
    /\ node.position # call.preNode.position
    /\ Len(log) = 1

\* ------------------------------------------------------------------ C6
\* C6: applying the same collection a second time leaves the node's position, scale,
\* rotation and properties as the first application left them.
C6_ApplyIdempotent ==
    (call.op = "apply" /\ call.n >= 2) => node = call.preNode

\* A second application of a collection with two different writable values for one
\* binding and a skipped entry.
C6_Witness ==
    /\ call.op = "apply"
    /\ call.n = 2
    /\ Skipped(values, node) # {}
    /\ \E i, j \in DOMAIN values :
        /\ i < j
        /\ values[i].binding = values[j].binding
        /\ values[i].value # values[j].value
        /\ Writable(values[i], node) /\ Writable(values[j], node)

\* ------------------------------------------------------------------ C9
Reverse(s) == [i \in 1..Len(s) |-> s[Len(s) + 1 - i]]

\* The pose after blending the layers ls into base in the given order.
RECURSIVE BlendAll(_, _, _)
BlendAll(base, ls, order) ==
    IF order = <<>> THEN base
    ELSE BlendAll(BoundValueCollection_blend_with(base, ls[Head(order)].values,
                                                  ls[Head(order)].weight).values,
                  ls, Tail(order))

\* No product and no sum of one blend_with(other, weight) on self is rounded.
ExactBlend(self, other, weight) ==
    \A i \in DOMAIN self :
        LET f == FindFrom(other, self[i].binding, 1)
        IN (IsVector(self[i]) /\ f # 0 /\ IsVector(other[f])) =>
              \A c \in 1..3 :
                  /\ 2 * FMul(other[f].value.v[c], weight) = other[f].value.v[c] * weight
                  /\ FAdd(self[i].value.v[c], FMul(other[f].value.v[c], weight))
                       = self[i].value.v[c] + FMul(other[f].value.v[c], weight)

RECURSIVE NoRounding(_, _, _)
NoRounding(base, ls, order) ==
    IF order = <<>> THEN TRUE
    ELSE /\ ExactBlend(base, ls[Head(order)].values, ls[Head(order)].weight)
         /\ NoRounding(BoundValueCollection_blend_with(base, ls[Head(order)].values,
                                                       ls[Head(order)].weight).values,
                       ls, Tail(order))

VectorsAgree(a, b) ==
    /\ Len(a) = Len(b)
    /\ \A i \in DOMAIN a : IsVector(a[i]) => a[i] = b[i]

\* C9 as stated: once every layer is blended, each vector entry of the pose has the
\* value it has when the layers are blended in the opposite order.
C9_Original ==
    pending = {} =>
        VectorsAgree(values, BlendAll(call.pre, layers, Reverse(call.order)))

\* C9: once every layer is blended, each vector entry of the pose has the value it has
\* when the layers are blended in the opposite order, provided no f32 product or sum
\* was rounded in either order.
C9_OrderIndependentWhenExact ==
    (/\ pending = {}
     /\ NoRounding(call.pre, layers, call.order)
     /\ NoRounding(call.pre, layers, Reverse(call.order)))
    => VectorsAgree(values, BlendAll(call.pre, layers, Reverse(call.order)))

\* Two different layers, each at a non-zero weight, have both moved a vector entry of
\* the pose, without rounding in either order.
C9_Witness ==
    /\ pending = {}
    /\ layers[1].values # layers[2].values
    /\ layers[1].weight # F32(0) /\ layers[2].weight # F32(0)
    /\ NoRounding(call.pre, layers, call.order)
    /\ NoRounding(call.pre, layers, Reverse(call.order))
    /\ \E i \in DOMAIN values :
        /\ IsVector(values[i])
        /\ values[i] # call.pre[i]
        /\ \A k \in {1, 2} :
             BoundValueCollection_blend_with(call.pre, layers[k].values,
                                             layers[k].weight).values[i] # call.pre[i]
        /\ values[i] # BoundValueCollection_blend_with(
                           call.pre, layers[1].values, layers[1].weight).values[i]
        /\ values[i] # BoundValueCollection_blend_with(
                           call.pre, layers[2].values, layers[2].weight).values[i]

\* ------------------------------------------------------------------ C11
\* The calls start with execute and alternate between execute and revert.
Alternates(calls) ==
    \A i \in DOMAIN calls : calls[i] = IF i % 2 = 1 THEN "execute" ELSE "revert"

\* C11: after a sequence of calls that starts with execute and alternates, the command
\* has not panicked and its state is not Undefined; after an execute it is Executed and
\* the material is the one built at the first execute, after a revert it is Reverted
\* and the material is the original one; one material was built in all.
C11_SwapAlternates ==
    (history.calls # <<>> /\ Alternates(history.calls)) =>
        LET built == [shader |-> history.shader, build |-> 1]
        IN /\ pc = "done"
           /\ command.state.tag # "Undefined"
           /\ builds = 1
           /\ IF history.calls[Len(history.calls)] = "execute"
                 THEN /\ command.state = Executed(history.material)
                      /\ material.data = built
                 ELSE /\ command.state = Reverted(built)
                      /\ material.data = history.material

\* execute, revert, execute on a material with a path, the last save having succeeded.
C11_Witness ==
    /\ history.calls = <<"execute", "revert", "execute">>
    /\ material.path
    /\ command.state.tag = "Executed"
    /\ disk = material.data
    /\ material.data # history.material

====
